---------------------------- MODULE Spec2Model ----------------------------
(***************************************************************************)
(* A model of zap2xml.py: the fetch / cache / normalize / assemble /       *)
(* serialize pipeline of class Zap2XML.                                    *)
(*                                                                         *)
(* Python dicts are modelled as TLA+ functions whose DOMAIN is the dict's  *)
(* key set ("k in d" is  k \in DOMAIN d).  Strings that the code only      *)
(* compares for equality are TLA+ strings; strings the code orders,        *)
(* strips or measures are sequences (channel numbers and channel ids are   *)
(* sequences of decimal digits, descriptions are sequences of characters). *)
(* A program id is the record [kind, series, seq] standing for the string  *)
(* kind ++ 8-digit series ++ 4-digit seq (e.g. "EP" "00000001" "0002").    *)
(***************************************************************************)
EXTENDS Integers, Sequences, FiniteSets, TLC

VARIABLES
    args,           \* the options as given on the command line
    opt,            \* the option attributes of the instance (set by parse_options)
    pc,             \* position of run(): "options", "bucket", "fetch", "parse",
                    \* "write", "done", "aborted"; "merge", "render" for the parse calls alone
    count,          \* process_data: index of the current bucket
    rc,             \* get_url: attempts made for the current request
    fileExists,     \* the cache file of the current bucket exists on disk now
    existed,        \* ... existed when the bucket was reached (os.path.exists, line 485)
    requested,      \* get_url was called for the grid request of the current bucket
    parsedCount,    \* number of buckets parsed so far
    halted,         \* the bucket loop was left by `break`
    XTVD_startTime, \* <<>> is None, <<t>> is t
    XTVD_endTime,
    stations,       \* self.stations
    programs,       \* self.programs
    schedule,       \* self.schedule
    coNum,          \* self.coNum
    dfiles,         \* detail cache files on disk: program id -> payload of the file
    doc,            \* the records written to the output file, in order
    schedAtWrite,   \* self.schedule as it was when write_output_file started
    enrichLog,      \* the calls of post_json_overview made by the last parse:
                    \* [cp, before, after], the program's genres around the call
    hist,           \* the grid observations parsed so far, in order
    lastParse       \* the payload of the bucket parsed last: [ok, titles, expired]

vars == <<args, opt, pc, count, rc, fileExists, existed, requested, parsedCount, halted,
          XTVD_startTime, XTVD_endTime, stations, programs, schedule, coNum,
          dfiles, doc, schedAtWrite, enrichLog, hist, lastParse>>

-----------------------------------------------------------------------------
(* Python dict and string helpers *)

EmptyDict == [x \in {} |-> 0]

Has(d, k) == k \in DOMAIN d

Put(d, k, v) == (k :> v) @@ d

Get(d, k, dflt) == IF k \in DOMAIN d THEN d[k] ELSE dflt

Del(d, k) == [x \in (DOMAIN d) \ {k} |-> d[x]]

Range(s) == {s[i] : i \in DOMAIN s}

\* str.lstrip('0') on a sequence of digits
RECURSIVE lstrip0(_)
lstrip0(s) == IF s # <<>> /\ Head(s) = 0 THEN lstrip0(Tail(s)) ELSE s

\* Python's < on two strings given as sequences of digits (lexicographic)
RECURSIVE StrLess(_, _)
StrLess(a, b) ==
    IF b = <<>> THEN FALSE
    ELSE IF a = <<>> THEN TRUE
    ELSE IF Head(a) # Head(b) THEN Head(a) < Head(b)
    ELSE StrLess(Tail(a), Tail(b))

\* cp.startswith(prefixes)
StartsWith(cp, prefixes) == cp.kind \in prefixes

\* The genre vocabulary in Python string order; NameLess is < on these strings.
GenreNames == <<"drama", "family", "movie", "news", "series", "sports">>

NameIndex(g) == CHOOSE i \in DOMAIN GenreNames : GenreNames[i] = g

NameLess(a, b) == NameIndex(a) < NameIndex(b)

\* re.sub(r'filter-', '', g, flags=re.I).lower() on the provider's filter tags
FilterGenre(g) ==
    CASE g = "filter-news"   -> "news"
      [] g = "filter-family" -> "family"
      [] g = "filter-sports" -> "sports"
      [] g = "filter-movie"  -> "movie"
      [] g = "Filter-Drama"  -> "drama"
      [] OTHER               -> g

\* sg.lower() on the series genre tags of a detail payload
Lower(g) ==
    CASE g = "Drama"  -> "drama"
      [] g = "News"   -> "news"
      [] g = "Family" -> "family"
      [] OTHER        -> g

\* re.search(self.sTBA, title, re.I) with sTBA = r"\bTBA\b|To Be Announced"
IsTBA(title) == title \in {"TBA", "To Be Announced", "tba"}

\* str2time1: a timestamp string is modelled by its epoch seconds, an absent
\* or unparseable one by -1; strptime failing returns 0.
str2time1(s) == IF s < 0 THEN 0 ELSE s


-----------------------------------------------------------------------------
(* Entity-map updates used by both source adapters *)

\* the id of an event whose program has no id (`if not cp: continue`)
NoId == [kind |-> "", series |-> 0, seq |-> 0]

\* self.programs.setdefault(cp, {})[k] = v
SetProg(P, cp, k, v) == Put(P, cp, Put(Get(P, cp, EmptyDict), k, v))

\* self.programs.setdefault(cp, {}).setdefault('genres', {})[g] = r
SetGenre(P, cp, g, r) ==
    LET p == Get(P, cp, EmptyDict)
    IN  Put(P, cp, Put(p, "genres", Put(Get(p, "genres", EmptyDict), g, r)))

\* SetSched filing the airing under the channel number alone as well
SetSchedByNumber(S, cs, t, rec) ==
    Put(Put(S, cs, Put(Get(S, cs, EmptyDict), t, rec)), <<cs[1]>>, (t :> rec))

\* self.schedule.setdefault(cs, {})[t] = rec
SetSched(S, cs, t, rec) == Put(S, cs, Put(Get(S, cs, EmptyDict), t, rec))

\* self.schedule[cs][t][k] = v
SetAiring(S, cs, t, k, v) == Put(S, cs, Put(S[cs], t, Put(S[cs][t], k, v)))

set_original_air_date(P, cp, sch) ==
    IF ~StartsWith(cp, {"EP", "SH", "MV"}) \/ cp.seq = 0
    THEN P
    ELSE IF ~Has(Get(P, cp, EmptyDict), "originalAirDate")
            \/ sch < P[cp]["originalAirDate"]
         THEN SetProg(P, cp, "originalAirDate", sch)
         ELSE P

-----------------------------------------------------------------------------
(* Detail enrichment of the grid adapter: post_json_overview *)

\* for sg in series_genres.split('|'): if sg.lower() not in gh: gh[sg] = i; i += 1
RECURSIVE SeriesGenresLoop(_, _, _, _)
SeriesGenresLoop(gh, tags, k, i) ==
    IF k > Len(tags) THEN gh
    ELSE LET sg == Lower(tags[k])
         IN  IF Has(gh, sg)
             THEN SeriesGenresLoop(gh, tags, k + 1, i)
             ELSE SeriesGenresLoop(Put(gh, sg, i), tags, k + 1, i + 1)

MaxRank(gh) == CHOOSE m \in Range(gh) : \A r \in Range(gh) : r <= m

\* "Process series genres": gh is the program's genre dict itself when the
\* program has one; otherwise it is a fresh dict that is thrown away.
OverviewGenres(P, cp, t) ==
    IF t.seriesGenres = <<>> \/ ~Has(Get(P, cp, EmptyDict), "genres")
    THEN P
    ELSE LET gh      == P[cp]["genres"]
             max_val == IF DOMAIN gh # {} THEN MaxRank(gh) ELSE 0
             i       == IF max_val # 0 THEN max_val + 1 ELSE 2
         IN  SetProg(P, cp, "genres", SeriesGenresLoop(gh, t.seriesGenres, 1, i))

\* "Update description for movies and shows"
OverviewDescription(P, cp, t) ==
    IF StartsWith(cp, {"MV", "SH"})
       /\ t.seriesDescription # <<>>
       /\ Len(t.seriesDescription) > Len(Get(Get(P, cp, EmptyDict), "description", <<>>))
    THEN SetProg(P, cp, "description", t.seriesDescription)
    ELSE P

\* str2time2: as str2time1, for the detail payload's date format
str2time2(s) == IF s < 0 THEN 0 ELSE s

\* the detail payload names no original air date for the program ('' or no
\* entry whose tmsID is the program's id)
NoDate == -1
\* the provider's date for "unknown", '1000-01-01T00:00Z'
SentinelDate == -2

\* "Original air date for episodes", lines 1181-1194; t.originalAirDate is
\* the date of the entry of upcomingEpisode or upcomingEpisodeTab whose tmsID
\* is cp
OverviewOriginalAirDate(P, cp, t) ==
    IF StartsWith(cp, {"EP"}) /\ t.originalAirDate \notin {NoDate, SentinelDate}
    THEN SetProg(P, cp, "originalAirDate", str2time2(t.originalAirDate) * 1000)
    ELSE P

\* The session object self.ua is None for the whole run (line 173 is its only
\* assignment), so the POST of lines 1106-1111 raises, is caught at line 1114
\* and writes no file; self.sidCache therefore stays empty and line 1088 never
\* copies.  What is parsed is the detail file already on disk, if any.  A file
\* that cannot be decoded (t.ok = FALSE) raises inside the try of line 1119.
\* get_zap_p_params (line 1095) is taken to return: the session holds a token.
\* Cast, crew and image of the payload are not modelled.
post_json_overview(P, cp, df) ==
    IF ~Has(df, cp) THEN P
    ELSE LET t == df[cp]
         IN  IF ~t.ok THEN P
             ELSE OverviewOriginalAirDate(
                      OverviewDescription(OverviewGenres(P, cp, t), cp, t), cp, t)

-----------------------------------------------------------------------------
(* The grid adapter: parse_json *)

\* for i, g in enumerate(genres, 1): ...['genres'][g.lower()] = i
RECURSIVE FilterLoop(_, _, _, _)
FilterLoop(P, cp, genres, i) ==
    IF i > Len(genres) THEN P
    ELSE FilterLoop(SetGenre(P, cp, FilterGenre(genres[i]), i), cp, genres, i + 1)

\* "description", lines 1003-1005
JsonDescription(P, cp, description) ==
    IF description # <<>> THEN SetProg(P, cp, "description", description) ELSE P

\* JsonRating storing whatever the event carries, an empty rating too
JsonRatingAlways(P, cp, rating) == SetProg(P, cp, "rating", rating)

\* "Rating", lines 1050-1053
JsonRating(P, cp, rating) ==
    IF rating # "" THEN SetProg(P, cp, "rating", rating) ELSE P

\* One iteration of `for e in s.get('events', [])`, lines 988-1079 (season,
\* episode, thumbnail and url of the program are not modelled).
\* st = [stations, programs, schedule, coNum, tba, elog]; elog records the
\* enrichment calls for the properties and is no state of the program.
JsonEvent(st, cs, e, df) ==
    LET program == e.program
        cp      == program.id
    IN
    IF cp = NoId THEN st
    ELSE
    LET P1  == SetProg(st.programs, cp, "title", program.title)
        tba == st.tba \/ IsTBA(program.title)
        P2  == IF program.episodeTitle # ""
               THEN SetProg(P1, cp, "episode", program.episodeTitle) ELSE P1
        P3  == JsonDescription(P2, cp, program.shortDesc)
        P4  == IF e.duration > 0 THEN SetProg(P3, cp, "duration", e.duration) ELSE P3
        P5  == IF program.releaseYear # ""
               THEN SetProg(P4, cp, "movie_year", program.releaseYear) ELSE P4
        start_time == str2time1(e.startTime) * 1000
        S1  == SetSched(st.schedule, cs, start_time,
                        [time |-> start_time,
                         endTime |-> str2time1(e.endTime) * 1000,
                         program |-> cp, station |-> cs])
        P6  == FilterLoop(P5, cp, e.filter, 1)
        P7  == JsonRating(P6, cp, e.rating)
        S2  == IF "CC" \in e.tags THEN SetAiring(S1, cs, start_time, "cc", 1) ELSE S1
        S3  == IF "New" \in e.flag THEN SetAiring(S2, cs, start_time, "new", "New") ELSE S2
        P8  == IF "New" \in e.flag THEN set_original_air_date(P7, cp, start_time) ELSE P7
        S4  == IF "Live" \in e.flag THEN SetAiring(S3, cs, start_time, "live", "Live") ELSE S3
        P9  == IF "Live" \in e.flag THEN set_original_air_date(P8, cp, start_time) ELSE P8
        S5  == IF "Premiere" \in e.flag
               THEN SetAiring(S4, cs, start_time, "premiere", "Premiere") ELSE S4
        S6  == IF "Finale" \in e.flag
               THEN SetAiring(S5, cs, start_time, "finale", "Finale") ELSE S5
        P10 == IF opt.seriesCategory /\ ~StartsWith(cp, {"MV"})
               THEN SetGenre(P9, cp, "series", 99) ELSE P9
        det == opt.includeDetails /\ ~program.isGeneric
        P11 == IF det THEN post_json_overview(P10, cp, df) ELSE P10
    IN  [st EXCEPT !.programs = P11, !.schedule = S6, !.tba = tba,
                   !.elog = IF det
                            THEN Append(@, [cp |-> cp,
                                            before |-> Get(P10[cp], "genres", EmptyDict),
                                            after |-> Get(P11[cp], "genres", EmptyDict)])
                            ELSE @]

RECURSIVE JsonEvents(_, _, _, _, _)
JsonEvents(st, cs, events, k, df) ==
    IF k > Len(events) THEN st
    ELSE JsonEvents(JsonEvent(st, cs, events[k], df), cs, events, k + 1, df)

\* One iteration of `for s in t.get('channels', [])`, lines 951-1079.
\* A channel id is a non-empty digit sequence; <<>> is an absent one.
JsonChannel(st, s, df) ==
    IF s.channelId = <<>> THEN st
    ELSE IF ~opt.allChan /\ opt.zapFavorites # {} /\ s.channelId \notin opt.zapFavorites
    THEN st
    ELSE
    LET cs  == <<s.channelNo, s.channelId>>
        st1 == IF Has(st.stations, cs) THEN st
               ELSE [st EXCEPT
                      !.stations = Put(@, cs,
                          [stnNum |-> s.channelId,
                           name   |-> s.callSign,
                           number |-> lstrip0(s.channelNo),
                           order  |-> IF opt.retainOrder
                                      THEN <<"int", st.coNum>>
                                      ELSE <<"str", lstrip0(s.channelNo)>>]),
                      !.coNum = @ + 1]
    IN  JsonEvents(st1, cs, s.events, 1, df)

RECURSIVE JsonChannels(_, _, _, _)
JsonChannels(st, channels, k, df) ==
    IF k > Len(channels) THEN st
    ELSE JsonChannels(JsonChannel(st, channels[k], df), channels, k + 1, df)

\* parse_json(fn) on the decoded payload t of the cache file.  A file that
\* cannot be decompressed or decoded raises at lines 946-948; the except of
\* line 1080 logs it and the maps are left as they were.
parse_json(st, t, df) ==
    IF ~t.ok THEN st ELSE JsonChannels(st, t.channels, 1, df)

-----------------------------------------------------------------------------
(* The alternate adapter: parse_tvg_grid *)

\* "Set genre based on category", lines 832-839
CatGenre(P, cp, catid) ==
    CASE catid = 1 -> SetGenre(P, cp, "movie", 1)
      [] catid = 2 -> SetGenre(P, cp, "sports", 1)
      [] catid = 3 -> SetGenre(P, cp, "family", 1)
      [] catid = 4 -> SetGenre(P, cp, "news", 1)
      [] OTHER     -> P

\* "description", lines 856-858
TvgDescription(P, cp, description) ==
    IF description # <<>> THEN SetProg(P, cp, "description", description) ELSE P

\* "rating", lines 860-862
TvgRating(P, cp, rating) ==
    IF rating # "" THEN SetProg(P, cp, "rating", rating) ELSE P

\* parse_tvg_details(fn) on the decoded detail file t, lines 915-942 (the
\* photos are not modelled).  A file that cannot be decoded raises inside the
\* try and is logged at line 942.
parse_tvg_details(P, cp, t) ==
    IF ~t.ok THEN P
    ELSE LET P1 == IF t.release_year # ""
                   THEN SetProg(P, cp, "movie_year", t.release_year) ELSE P
         IN  IF t.rating # "" /\ ~Has(P1[cp], "rating") /\ t.rating # "NR"
             THEN SetProg(P1, cp, "rating", t.rating) ELSE P1

\* a detail file that cannot be decoded
BadDetail == [ok |-> FALSE, release_year |-> "", rating |-> ""]

\* the outcomes of the detail request of line 1227 and the write of line 1229:
\* get_url(url, True) returns "" when every attempt failed, else the content;
\* write_binary_file raises when the file cannot be written
NoResponse == [rs |-> FALSE, written |-> FALSE, t |-> BadDetail]

Response(written, t) == [rs |-> TRUE, written |-> written, t |-> t]

\* get_details(self.parse_tvg_details, cp, url, ""), lines 1224-1237.
\* df holds the detail files on disk before the parse call, st.dnew those
\* written during it; net[cp] is the outcome of the request for cp.  The
\* exception of write_binary_file leaves get_details and the event loop
\* (st.raised); st.efail records the failures and st.dreq the programs a
\* request was sent for (get_url makes an attempt if self.retries >= 1), both
\* for the properties.
get_details(st, cp, df, net) ==
    LET r  == Get(net, cp, NoResponse)
        fetched == ~Has(df, cp) /\ ~Has(st.dnew, cp) /\ r.rs
        fn == IF Has(df, cp) THEN <<df[cp]>>
              ELSE IF Has(st.dnew, cp) THEN <<st.dnew[cp]>>
              ELSE IF r.rs /\ r.written THEN <<r.t>>
              ELSE <<>>
        asked == ~Has(df, cp) /\ ~Has(st.dnew, cp) /\ opt.retries >= 1
        dreq  == IF asked THEN st.dreq \cup {cp} ELSE st.dreq
    IN  IF fetched /\ ~r.written
        THEN [st EXCEPT !.raised = TRUE, !.efail = @ \cup {"write"}, !.dreq = dreq]
        ELSE IF fn = <<>>
        THEN [st EXCEPT !.efail = @ \cup {"request"}, !.dreq = dreq]
        ELSE [st EXCEPT !.programs = parse_tvg_details(@, cp, fn[1]),
                        !.dreq = dreq,
                        !.dnew = IF fetched THEN Put(@, cp, r.t) ELSE @,
                        !.efail = IF fn[1].ok THEN @ ELSE @ \cup {"payload"}]

\* One iteration of `for pe in e.get('ProgramSchedules', [])`, lines 824-911.
\* The TVObject block (880-905) only sets seasonNum, episodeNum,
\* originalAirDate and url and is not modelled; no option sets self.W.
TvgEvent(st, cs, pe, df, net) ==
    LET cp == pe.ProgramId
    IN
    IF cp = NoId THEN st
    ELSE
    LET P1  == CatGenre(st.programs, cp, pe.CatId)
        P2  == IF pe.ParentProgramId # 0 \/ (opt.seriesCategory /\ pe.CatId # 1)
               THEN SetGenre(P1, cp, "series", 99) ELSE P1
        P3  == SetProg(P2, cp, "title", pe.Title)
        tba == st.tba \/ IsTBA(pe.Title)
               \/ (pe.EpisodeTitle # "" /\ IsTBA(pe.EpisodeTitle))
        P4  == IF pe.EpisodeTitle # ""
               THEN SetProg(P3, cp, "episode", pe.EpisodeTitle) ELSE P3
        P5  == TvgDescription(P4, cp, pe.CopyText)
        P6  == TvgRating(P5, cp, pe.Rating)
        sch == pe.StartTime * 1000
        S1  == SetSched(st.schedule, cs, sch,
                        [time |-> sch, endtime |-> pe.EndTime * 1000,
                         program |-> cp, station |-> cs])
        S2  == IF pe.AiringAttrib % 2 = 1
               THEN SetAiring(S1, cs, sch, "live", 1)
               ELSE IF (pe.AiringAttrib \div 4) % 2 = 1
                    THEN SetAiring(S1, cs, sch, "new", 1)
                    ELSE S1
        det == opt.includeIcons
               \/ (opt.includeDetails /\ Has(Get(P6[cp], "genres", EmptyDict), "movie"))
        st1 == [st EXCEPT !.programs = P6, !.schedule = S2, !.tba = tba]
    IN  IF det THEN get_details(st1, cp, df, net) ELSE st1

\* the loop ends early when an exception left an iteration (caught at line 912)
RECURSIVE TvgEvents(_, _, _, _, _, _)
TvgEvents(st, cs, pes, k, df, net) ==
    IF k > Len(pes) \/ st.raised THEN st
    ELSE TvgEvents(TvgEvent(st, cs, pes[k], df, net), cs, pes, k + 1, df, net)

\* One iteration of `for e in t`, lines 799-911.  The channel record is given
\* in the field names of the grid adapter: channelNo is Channel.Number,
\* channelId is Channel.SourceId, callSign is Channel.Name.
TvgChannel(st, e, df, net) ==
    LET cs == <<e.channelNo, e.channelId>>
    IN
    IF opt.tvgfavs # {} /\ cs \notin opt.tvgfavs THEN st
    ELSE
    LET st1 == IF Has(st.stations, cs) THEN st
               ELSE [st EXCEPT
                      !.stations = Put(@, cs,
                          [stnNum |-> e.channelId,
                           number |-> e.channelNo,
                           name   |-> e.callSign,
                           order  |-> IF opt.retainOrder
                                      THEN <<"int", st.coNum>>
                                      ELSE <<"str", e.channelNo>>]),
                      !.coNum = @ + 1]
    IN  TvgEvents(st1, cs, e.events, 1, df, net)

RECURSIVE TvgChannels(_, _, _, _, _)
TvgChannels(st, t, k, df, net) ==
    IF k > Len(t) \/ st.raised THEN st
    ELSE TvgChannels(TvgChannel(st, t[k], df, net), t, k + 1, df, net)

\* parse_tvg_grid(fn) on the decoded payload t, lines 793-913; the except of
\* line 912 logs whatever was raised and the maps stay as they are by then
parse_tvg_grid(st, t, df, net) ==
    IF ~t.ok THEN st ELSE TvgChannels(st, t.channels, 1, df, net)

\* The adapter process_data selects (line 428)
ParseGrid(st, t, df, net) ==
    IF opt.useTVGuide THEN parse_tvg_grid(st, t, df, net) ELSE parse_json(st, t, df)

-----------------------------------------------------------------------------
(* Rendering: station order and channel ids *)

\* Python's < on two 'order' values: both coNum integers (retainOrder) or both
\* channel-number strings
OrderLess(a, b) == IF a[1] = "int" THEN a[2] < b[2] ELSE StrLess(a[2], b[2])

\* sort_chan(a, b): -1, 0 or 1.  Every station is created with an 'order', so
\* the comparison by name of lines 1350-1353 is never reached.
sort_chan(ST, a, b) ==
    LET ao  == ST[a].order
        bo  == ST[b].order
        cmp == (IF OrderLess(bo, ao) THEN 1 ELSE 0) - (IF OrderLess(ao, bo) THEN 1 ELSE 0)
    IN  IF cmp = 0
        THEN (IF StrLess(ST[b].stnNum, ST[a].stnNum) THEN 1 ELSE 0)
             - (IF StrLess(ST[a].stnNum, ST[b].stnNum) THEN 1 ELSE 0)
        ELSE cmp

\* sorted(keys, key=cmp_to_key(self.sort_chan)): the results sorted() can give
\* for the key set K; keys that compare equal keep their dict insertion order,
\* which the model leaves open.
SortedByChan(ST, K) ==
    {q \in [1..Cardinality(K) -> K] :
        /\ \A i, j \in DOMAIN q : i # j => q[i] # q[j]
        /\ \A i, j \in DOMAIN q : i < j => sort_chan(ST, q[i], q[j]) <= 0}

\* No option or config line sets oldStyleIds (it is read at line 1358 only).
oldStyleIds == FALSE

\* station_to_channel with the station's name in the id
StationToChannelWithName(ST, s) ==
    <<"I", ST[s].number, ".", ST[s].stnNum, ST[s].name, ".gracenote.com">>

\* station_to_channel(s): the id string as the tuple of its parts
station_to_channel(ST, s) ==
    IF opt.useTVGuide
    THEN <<"I", ST[s].number, ".", ST[s].stnNum, ".tvguide.com">>
    ELSE IF oldStyleIds
    THEN <<"C", ST[s].number, ST[s].name, ".gracenote.com">>
    ELSE IF opt.opt9
    THEN <<"I", ST[s].stnNum, ".labs.gracenote.com">>
    ELSE <<"I", ST[s].number, ".", ST[s].stnNum, ".gracenote.com">>

\* conv_time / conv_time_xtvd: strftime of t/1000 prints whole seconds
conv_time(t) == t \div 1000

\* sorted(d.keys()) for integer keys, ascending
RECURSIVE SortedKeys(_)
SortedKeys(K) ==
    IF K = {} THEN <<>>
    ELSE LET m == CHOOSE x \in K : \A y \in K : x <= y
         IN  <<m>> \o SortedKeys(K \ {m})

\* SortedGenres with the key x alone
RECURSIVE SortedGenresByName(_, _)
SortedGenresByName(gh, K) ==
    IF K = {} THEN <<>>
    ELSE LET m == CHOOSE x \in K : \A y \in K \ {x} : NameLess(x, y)
         IN  <<m>> \o SortedGenresByName(gh, K \ {m})

\* sorted(genres.keys(), key=lambda x: (genres[x], x))
RECURSIVE SortedGenres(_, _)
SortedGenres(gh, K) ==
    IF K = {} THEN <<>>
    ELSE LET m == CHOOSE x \in K : \A y \in K \ {x} :
                      gh[x] < gh[y] \/ (gh[x] = gh[y] /\ NameLess(x, y))
         IN  <<m>> \o SortedGenres(gh, K \ {m})

\* g.capitalize()
Capitalize(g) ==
    CASE g = "drama"  -> "Drama"
      [] g = "family" -> "Family"
      [] g = "movie"  -> "Movie"
      [] g = "news"   -> "News"
      [] g = "series" -> "Series"
      [] g = "sports" -> "Sports"
      [] OTHER        -> g

Categories(p) ==
    IF Has(p, "genres")
    THEN LET sg == SortedGenres(p["genres"], DOMAIN p["genres"])
         IN  [i \in DOMAIN sg |-> Capitalize(sg[i])]
    ELSE <<>>

-----------------------------------------------------------------------------
(* Rendering: the channel/programme document *)

\* print_channels: one channel record per station, in sorted order
print_channels(ST, skeys) ==
    [i \in DOMAIN skeys |->
        [tag |-> "channel", id |-> station_to_channel(ST, skeys[i]), key |-> skeys[i]]]

\* One programme element, lines 1462-1606 (title, desc, categories and rating
\* of its children)
ProgrammeRec(ST, P, A, station, key_array, i) ==
    LET a        == A[key_array[i]]
        end_time == IF Has(a, "endtime") THEN a.endtime ELSE A[key_array[i + 1]].time
    IN  [tag |-> "programme", key |-> station, s |-> key_array[i],
         start |-> conv_time(a.time), stop |-> conv_time(end_time),
         channel |-> station_to_channel(ST, a.station),
         program |-> a.program,
         desc |-> Get(P[a.program], "description", <<>>),
         categories |-> Categories(P[a.program]),
         rating |-> Get(P[a.program], "rating", "")]

\* ProgrammeLoop skipping the last airing of the station whatever it holds
RECURSIVE ProgrammeLoopSkipLast(_, _, _, _, _, _)
ProgrammeLoopSkipLast(ST, P, A, station, key_array, i) ==
    IF i >= Len(key_array) THEN <<>>
    ELSE <<ProgrammeRec(ST, P, A, station, key_array, i)>>
         \o ProgrammeLoopSkipLast(ST, P, A, station, key_array, i + 1)

\* The while loop of lines 1453-1607 for one station
RECURSIVE ProgrammeLoop(_, _, _, _, _, _)
ProgrammeLoop(ST, P, A, station, key_array, i) ==
    IF i > Len(key_array) THEN <<>>
    ELSE IF i = Len(key_array) /\ ~Has(A[key_array[i]], "endtime")
    THEN ProgrammeLoop(ST, P, A, station, key_array, i + 1)
    ELSE <<ProgrammeRec(ST, P, A, station, key_array, i)>>
         \o ProgrammeLoop(ST, P, A, station, key_array, i + 1)

\* `del self.schedule[station][s]` of line 1458
AfterProgrammes(A) ==
    LET key_array == SortedKeys(DOMAIN A)
        n         == Len(key_array)
    IN  IF n > 0 /\ ~Has(A[key_array[n]], "endtime") THEN Del(A, key_array[n]) ELSE A

\* print_programmes: what is written for the stations pkeys[k..]
RECURSIVE print_programmes(_, _, _, _, _)
print_programmes(ST, P, S, pkeys, k) ==
    IF k > Len(pkeys) THEN <<>>
    ELSE ProgrammeLoop(ST, P, S[pkeys[k]], pkeys[k], SortedKeys(DOMAIN S[pkeys[k]]), 1)
         \o print_programmes(ST, P, S, pkeys, k + 1)

-----------------------------------------------------------------------------
(* Rendering: the multi-section (XTVD) document *)

\* The while loop of lines 1659-1679 for one station, up to the index at which
\* it stops: at the last index the airing is deleted and `continue` repeats
\* the same index, whose second `del` raises KeyError.
RECURSIVE ScheduleLoop(_, _, _, _, _)
ScheduleLoop(ST, A, station, key_array, i) ==
    IF i >= Len(key_array) THEN <<>>
    ELSE <<[tag |-> "schedule", key |-> station, s |-> key_array[i],
            program |-> A[key_array[i]].program,
            station |-> ST[station].stnNum,
            time |-> conv_time(A[key_array[i]].time),
            duration |-> A[key_array[i + 1]].time - A[key_array[i]].time]>>
         \o ScheduleLoop(ST, A, station, key_array, i + 1)

\* print_schedules_xtvd: [out, S, raised]: the records written, self.schedule
\* afterwards, and whether the KeyError left the function.  self.schedule never
\* holds a station without airings before rendering, so the loop of the first
\* station in sorted order raises.
print_schedules_xtvd(ST, S, pkeys) ==
    IF pkeys = <<>>
    THEN [out |-> <<[tag |-> "schedules"], [tag |-> "/schedules"]>>, S |-> S, raised |-> FALSE]
    ELSE LET station   == pkeys[1]
             key_array == SortedKeys(DOMAIN S[station])
         IN  [out |-> <<[tag |-> "schedules"]>>
                      \o ScheduleLoop(ST, S[station], station, key_array, 1),
              S |-> Put(S, station, Del(S[station], key_array[Len(key_array)])),
              raised |-> TRUE]

print_stations_xtvd(ST, skeys) ==
    <<[tag |-> "stations"]>>
    \o [i \in DOMAIN skeys |-> [tag |-> "station", id |-> ST[skeys[i]].stnNum, key |-> skeys[i]]]
    \o <<[tag |-> "/stations"]>>

print_lineups_xtvd(ST, skeys) ==
    <<[tag |-> "lineups"]>>
    \o [i \in DOMAIN skeys |->
          [tag |-> "map", station |-> ST[skeys[i]].stnNum, channel |-> ST[skeys[i]].number]]
    \o <<[tag |-> "/lineups"]>>

\* print_programs_xtvd and print_genres_xtvd iterate self.programs in dict
\* order; the model records the two sections by their tags only.
print_programs_genres_xtvd ==
    <<[tag |-> "programs"], [tag |-> "/programs"], [tag |-> "genres"], [tag |-> "/genres"]>>

-----------------------------------------------------------------------------
(* Inputs: provider payloads *)

\* an event of the grid adapter's payload
ZEv(id, title, desc, rating, filter, start, end, flag, generic) ==
    [program |-> [id |-> id, title |-> title, episodeTitle |-> "", shortDesc |-> desc,
                  releaseYear |-> "", isGeneric |-> generic],
     startTime |-> start, endTime |-> end, duration |-> 0,
     filter |-> filter, rating |-> rating, tags |-> {}, flag |-> flag]

\* a schedule entry of the alternate adapter's payload
TEv(id, catid, title, desc, rating, start, end, attrib) ==
    [ProgramId |-> id, CatId |-> catid, ParentProgramId |-> 0, Title |-> title,
     EpisodeTitle |-> "", CopyText |-> desc, Rating |-> rating,
     StartTime |-> start, EndTime |-> end, AiringAttrib |-> attrib]

Chan(no, id, name, events) ==
    [channelNo |-> no, channelId |-> id, callSign |-> name, events |-> events]

\* a decoded cache file; expired is the provider's mark that the data is not
\* final, ok = FALSE is a file that cannot be decompressed or decoded
Payload(channels) == [ok |-> TRUE, expired |-> FALSE, channels |-> channels]

Corrupt == [ok |-> FALSE, expired |-> FALSE, channels |-> <<>>]

Expired(t) == [t EXCEPT !.expired = TRUE]

EP1 == [kind |-> "EP", series |-> 1, seq |-> 1]
SH1 == [kind |-> "SH", series |-> 1, seq |-> 0]
MV1 == [kind |-> "MV", series |-> 2, seq |-> 0]

\* descriptions of length 1 and 2
D1 == <<"a">>
D2 == <<"b", "c">>

\* the payloads a grid request or a cache file of the scheduler runs can hold
JsonPayloads ==
    { Payload(<<>>),
      Payload(<<Chan(<<2>>, <<7>>, "KAAA",
                     <<ZEv(EP1, "News", D1, "TV-G", <<"filter-news">>, 100, 200, {}, TRUE)>>)>>),
      Payload(<<Chan(<<2>>, <<7>>, "KAAA",
                     <<ZEv(EP1, "News", D2, "", <<>>, 200, 300, {"New"}, TRUE)>>),
                Chan(<<1, 0>>, <<8>>, "KBBB",
                     <<ZEv(MV1, "TBA", D1, "", <<"filter-movie">>, 100, 300, {}, TRUE)>>)>>),
      Payload(<<Chan(<<2>>, <<7>>, "KAAA",
                     <<ZEv(SH1, "To Be Announced", <<>>, "", <<>>, 300, 400, {}, TRUE)>>)>>),
      Expired(Payload(<<Chan(<<2>>, <<7>>, "KAAA",
                     <<ZEv(EP1, "News", D1, "TV-G", <<"filter-news">>, 100, 200, {}, TRUE)>>)>>)),
      Corrupt }

TvgPayloads ==
    { Payload(<<>>),
      Payload(<<Chan(<<2>>, <<7>>, "KAAA", <<TEv(EP1, 4, "News", D1, "TV-G", 100, 200, 0)>>)>>),
      Payload(<<Chan(<<2>>, <<7>>, "KAAA", <<TEv(EP1, 4, "News", D2, "", 200, 0, 4)>>),
                Chan(<<1, 0>>, <<8>>, "KBBB", <<TEv(MV1, 1, "TBA", D1, "", 100, 300, 0)>>)>>),
      Payload(<<Chan(<<2>>, <<7>>, "KAAA",
                     <<TEv(SH1, 0, "To Be Announced", <<>>, "", 300, 400, 0)>>)>>),
      Expired(Payload(<<Chan(<<2>>, <<7>>, "KAAA",
                     <<TEv(EP1, 4, "News", D1, "TV-G", 100, 200, 0)>>)>>)),
      Corrupt }

\* the titles of the events of a payload
PayloadTitles(t) ==
    UNION {{IF opt.useTVGuide THEN t.channels[c].events[e].Title
            ELSE t.channels[c].events[e].program.title :
               e \in DOMAIN t.channels[c].events} : c \in DOMAIN t.channels}

\* the program ids of the events of a payload
PayloadIds(t) ==
    UNION {{IF opt.useTVGuide THEN t.channels[c].events[e].ProgramId
            ELSE t.channels[c].events[e].program.id :
               e \in DOMAIN t.channels[c].events} : c \in DOMAIN t.channels}

GridPayloads == IF opt.useTVGuide THEN TvgPayloads ELSE JsonPayloads

\* a decoded detail file of the alternate adapter
TvgDetail(year, rating) == [ok |-> TRUE, release_year |-> year, rating |-> rating]

\* what a detail request can come to: no response, a response that cannot be
\* written to the cache, a written response that is well-formed or not
DetailResponses ==
    { NoResponse,
      Response(FALSE, TvgDetail("1999", "PG")),
      Response(TRUE, TvgDetail("1999", "PG")),
      Response(TRUE, BadDetail) }

\* the outcomes of the detail requests a parse of the payload t can make
DetailOutcomes(t) ==
    IF opt.useTVGuide /\ (opt.includeIcons \/ opt.includeDetails)
    THEN [PayloadIds(t) -> DetailResponses]
    ELSE {EmptyDict}

-----------------------------------------------------------------------------
(* The run: process_options, process_data, get_url, write_output_file *)

\* self.gridHours (line 178)
gridHours == 3
\* the cap of process_options (lines 407-408)
RetryCap == 20

BucketsPerDay == 24 \div gridHours
BucketMs      == gridHours * 3600 * 1000

max_count == opt.days * BucketsPerDay

\* start of bucket c in ms, relative to hour_to_millis() + offset (line 475)
BucketStart(c) == c * BucketMs

curday(c) == (c \div BucketsPerDay) + 1

\* NeedFetch with the from-end window one day too wide
NeedFetchOffByOne(exists, day) ==
    (~exists) \/ day >= opt.ncdays \/ day <= opt.ncsdays \/ day = opt.ncmday

\* the condition of line 485 (and 446), with self.ncdays as process_options left it
NeedFetch(exists, day) ==
    (~exists) \/ day > opt.ncdays \/ day <= opt.ncsdays \/ day = opt.ncmday

\* no bucket has been parsed
NoParse == [ok |-> TRUE, titles |-> {}, programs |-> {}, expired |-> FALSE,
            unlinked |-> FALSE, efail |-> {}, dreq |-> {}, cached |-> {}]

\* the maps with self.tba and self.exp as a loop iteration finds them (lines
\* 173-175, 506-507)
EntityState == [stations |-> stations, programs |-> programs, schedule |-> schedule,
                coNum |-> coNum, tba |-> FALSE, exp |-> FALSE, elog |-> <<>>,
                raised |-> FALSE, dnew |-> EmptyDict, efail |-> {}, dreq |-> {}]

\* ProcessedOptions without the cap on retries
ProcessedOptionsNoCap(a) == [a EXCEPT !.ncdays = a.days - @]

\* what process_options makes of the options (lines 406-413)
ProcessedOptions(a) ==
    [a EXCEPT !.retries = IF @ > RetryCap THEN RetryCap ELSE @,
              !.ncdays = a.days - @]

\* The end of read_config_file (lines 403-404): without a user name (a lineup
\* id is set by no option or config line) the help text is printed and the
\* process exits with status 0.
ReadConfigFile ==
    /\ pc = "config"
    /\ pc' = IF ~opt.userEmail THEN "help" ELSE "options"
    /\ UNCHANGED <<args, opt, count, rc, fileExists, existed, requested, parsedCount, halted,
                   XTVD_startTime, XTVD_endTime, stations, programs, schedule, coNum,
                   dfiles, doc, schedAtWrite, enrichLog, hist, lastParse>>

\* process_options
ProcessOptions ==
    /\ pc = "options"
    /\ opt' = ProcessedOptions(opt)
    /\ pc' = "login"
    /\ UNCHANGED <<args, count, rc, fileExists, existed, requested, parsedCount, halted,
                   XTVD_startTime, XTVD_endTime, stations, programs, schedule, coNum,
                   dfiles, doc, schedAtWrite, enrichLog, hist, lastParse>>

\* `if not self.allChan: self.login()` (lines 429-430, 470-471).  login()
\* raises nothing for missing credentials (hasattr(self, 'zlineupId') holds
\* since __init__) and logs in only with user name and password; login_zap
\* and login_tvg raise after self.retries failed attempts, which leaves run().
\* The favorites the login reads are the options zapFavorites and tvgfavs.
Login ==
    /\ pc = "login"
    /\ IF opt.allChan \/ ~(opt.userEmail /\ opt.password)
       THEN pc' = "bucket" /\ UNCHANGED halted
       ELSE \/ opt.retries >= 1 /\ pc' = "bucket" /\ UNCHANGED halted
            \/ pc' = "aborted" /\ halted' = "login"
    /\ UNCHANGED <<args, opt, count, rc, fileExists, existed, requested, parsedCount,
                   XTVD_startTime, XTVD_endTime, stations, programs, schedule, coNum,
                   dfiles, doc, schedAtWrite, enrichLog, hist, lastParse>>

\* The head of one loop iteration, lines 477-485: the bucket's day, the XTVD
\* range, and the cache decision.  Whether the cache file exists is read from
\* the disk here.
BeginBucket ==
    /\ pc = "bucket"
    /\ count < max_count
    /\ \E exists \in BOOLEAN :
         /\ fileExists' = exists
         /\ existed' = exists
         /\ requested' = NeedFetch(exists, curday(count))
         /\ pc' = IF NeedFetch(exists, curday(count)) THEN "fetch" ELSE "parse"
    /\ XTVD_startTime' = IF count = 0 THEN <<BucketStart(count)>> ELSE XTVD_startTime
    /\ XTVD_endTime' = IF count # 0 /\ count = max_count - 1
                       THEN <<BucketStart(count) + (gridHours * 3600000) - 1>>
                       ELSE XTVD_endTime
    /\ rc' = 0
    /\ lastParse' = NoParse
    /\ UNCHANGED <<args, opt, count, parsedCount, halted, stations, programs, schedule, coNum,
                   dfiles, doc, schedAtWrite, enrichLog, hist>>

\* One pass of get_url's while loop (lines 1244-1266) for the grid request of
\* line 491, by what the provider answers.
GetUrlAttempt ==
    /\ pc = "fetch"
    /\ rc < opt.retries
    /\ rc' = rc + 1
    /\ \/ \* status 200 with content: returned, then written to the cache (line 494)
          /\ pc' = "parse"
          /\ fileExists' = TRUE
          /\ UNCHANGED halted
       \/ \* status 200 with content, and write_binary_file raises (line 1289)
          /\ pc' = "aborted"
          /\ halted' = "writefail"
          /\ UNCHANGED fileExists
       \/ \* status 500 with "Could not load details": returns "" and the loop breaks
          /\ pc' = "write"
          /\ halted' = "http500"
          /\ UNCHANGED fileExists
       \/ \* any other answer, an empty body or an exception: logged, next pass
          /\ pc' = "fetch"
          /\ UNCHANGED <<halted, fileExists>>
    /\ UNCHANGED <<args, opt, count, existed, requested, parsedCount, XTVD_startTime,
                   XTVD_endTime, stations, programs, schedule, coNum, dfiles, doc,
                   schedAtWrite, enrichLog, hist, lastParse>>

\* get_url leaves its loop without an answer and process_data, without the
\* test of lines 492-493, goes on to write_binary_file with the empty result
GetUrlExhaustedWritten ==
    /\ pc = "fetch"
    /\ rc >= opt.retries
    /\ pc' = "write"
    /\ halted' = "exhausted"
    /\ fileExists' = TRUE
    /\ UNCHANGED <<args, opt, count, rc, existed, requested, parsedCount,
                   XTVD_startTime, XTVD_endTime, stations, programs, schedule, coNum,
                   dfiles, doc, schedAtWrite, enrichLog, hist, lastParse>>

\* get_url leaves its loop without an answer (lines 1268-1271): "" is returned
\* and process_data breaks (line 493)
GetUrlExhausted ==
    /\ pc = "fetch"
    /\ rc >= opt.retries
    /\ pc' = "write"
    /\ halted' = "exhausted"
    /\ UNCHANGED <<args, opt, count, rc, fileExists, existed, requested, parsedCount,
                   XTVD_startTime, XTVD_endTime, stations, programs, schedule, coNum,
                   dfiles, doc, schedAtWrite, enrichLog, hist, lastParse>>

\* Lines 496-508: parse the bucket's cache file, delete it if self.tba (with
\* noTbaCache) or self.exp is set, and move to the next bucket.  No line of
\* the program assigns self.exp a value other than 0, so the parse leaves exp
\* as it was.  unlink_file logs an OSError and returns (lines 1291-1295).
ParseBucket ==
    /\ pc = "parse"
    /\ \E t \in GridPayloads : \E net \in DetailOutcomes(t) :
         LET st == ParseGrid(EntityState, t, dfiles, net)
         IN  /\ stations' = st.stations
             /\ programs' = st.programs
             /\ schedule' = st.schedule
             /\ coNum' = st.coNum
             /\ enrichLog' = st.elog
             /\ dfiles' = st.dnew @@ dfiles
             /\ lastParse' = [ok |-> t.ok, titles |-> PayloadTitles(t),
                              programs |-> PayloadIds(t), expired |-> t.expired,
                              unlinked |-> (opt.noTbaCache /\ st.tba) \/ st.exp,
                              efail |-> st.efail, dreq |-> st.dreq,
                              cached |-> DOMAIN dfiles]
             /\ IF (opt.noTbaCache /\ st.tba) \/ st.exp
                THEN \E deleted \in BOOLEAN :
                        fileExists' = IF deleted THEN FALSE ELSE fileExists
                ELSE UNCHANGED fileExists
    /\ parsedCount' = parsedCount + 1
    /\ count' = count + 1
    /\ pc' = "bucket"
    /\ UNCHANGED <<args, opt, rc, existed, requested, halted, XTVD_startTime, XTVD_endTime,
                   doc, schedAtWrite, hist>>

\* the for loop of line 477 ends
LoopDone ==
    /\ pc = "bucket"
    /\ count >= max_count
    /\ pc' = "write"
    /\ UNCHANGED <<args, opt, count, rc, fileExists, existed, requested, parsedCount, halted,
                   XTVD_startTime, XTVD_endTime, stations, programs, schedule, coNum,
                   dfiles, doc, schedAtWrite, enrichLog, hist, lastParse>>

\* write_output_file, channel/programme branch (lines 75-87)
WriteXmltv ==
    /\ pc = "write"
    /\ ~opt.outputXTVD
    /\ \E skeys \in SortedByChan(stations, DOMAIN stations) :
       \E pkeys \in SortedByChan(stations, DOMAIN schedule) :
         doc' = <<[tag |-> "tv"]>>
                \o print_channels(stations, skeys)
                \o print_programmes(stations, programs, schedule, pkeys, 1)
                \o <<[tag |-> "/tv"]>>
    /\ schedule' = [st \in DOMAIN schedule |-> AfterProgrammes(schedule[st])]
    /\ schedAtWrite' = schedule
    /\ pc' = "done"
    /\ UNCHANGED <<args, opt, count, rc, fileExists, existed, requested, parsedCount, halted,
                   XTVD_startTime, XTVD_endTime, stations, programs, coNum, dfiles,
                   enrichLog, hist, lastParse>>

\* write_output_file, XTVD branch (lines 66-73).  conv_time_xtvd(None) raises
\* in print_header_xtvd after the first line is written; an exception is not
\* an OSError and leaves run().
WriteXtvd ==
    /\ pc = "write"
    /\ opt.outputXTVD
    /\ schedAtWrite' = schedule
    /\ IF XTVD_startTime = <<>> \/ XTVD_endTime = <<>>
       THEN /\ doc' = <<[tag |-> "xml"]>>
            /\ pc' = "aborted"
            /\ UNCHANGED schedule
       ELSE \E skeys \in SortedByChan(stations, DOMAIN stations) :
            \E pkeys \in SortedByChan(stations, DOMAIN schedule) :
              LET head == <<[tag |-> "xml"],
                            [tag |-> "xtvd", from |-> conv_time(XTVD_startTime[1]),
                             to |-> conv_time(XTVD_endTime[1])]>>
                          \o print_stations_xtvd(stations, skeys)
                          \o print_lineups_xtvd(stations, skeys)
                  r    == print_schedules_xtvd(stations, schedule, pkeys)
              IN  /\ schedule' = r.S
                  /\ IF r.raised
                     THEN /\ doc' = head \o r.out
                          /\ pc' = "aborted"
                     ELSE /\ doc' = head \o r.out \o print_programs_genres_xtvd
                                    \o <<[tag |-> "/xtvd"]>>
                          /\ pc' = "done"
    /\ UNCHANGED <<args, opt, count, rc, fileExists, existed, requested, parsedCount, halted,
                   XTVD_startTime, XTVD_endTime, stations, programs, coNum, dfiles,
                   enrichLog, hist, lastParse>>

-----------------------------------------------------------------------------
(* The specification of a run *)

MaxDays    == 2
MaxNoCache == 1
MaxRetries == 2

DEFAULT_NCMDAY == -1

\* the options no run of this model sets
BaseOptions ==
    [days |-> 1, ncdays |-> 0, ncsdays |-> 0, ncmday |-> DEFAULT_NCMDAY, retries |-> 1,
     userEmail |-> TRUE, password |-> TRUE,
     useTVGuide |-> FALSE, outputXTVD |-> FALSE, retainOrder |-> FALSE,
     includeDetails |-> FALSE, includeIcons |-> FALSE, seriesCategory |-> FALSE, opt9 |-> FALSE,
     allChan |-> FALSE, zapFavorites |-> {}, tvgfavs |-> {}, noTbaCache |-> FALSE]

\* the runs: every setting of the no-cache windows, the runs with the
\* no-placeholder-cache option, the runs of the alternate adapter that
\* request details, and the runs without a user name or a password
RunOptions ==
    {[BaseOptions EXCEPT !.days = d, !.ncdays = n, !.ncsdays = ns, !.ncmday = nm,
                         !.retries = r, !.useTVGuide = z, !.outputXTVD = x] :
        d \in 0..MaxDays, n \in 0..MaxNoCache, ns \in 0..MaxNoCache,
        nm \in {DEFAULT_NCMDAY, MaxDays}, r \in 0..MaxRetries,
        z \in BOOLEAN, x \in BOOLEAN}
    \cup
    {[BaseOptions EXCEPT !.retries = r, !.useTVGuide = z, !.noTbaCache = TRUE] :
        r \in 1..MaxRetries, z \in BOOLEAN}
    \cup
    {[BaseOptions EXCEPT !.useTVGuide = TRUE, !.includeDetails = d, !.includeIcons = ~d] :
        d \in BOOLEAN}
    \cup
    {[BaseOptions EXCEPT !.userEmail = u, !.password = p, !.useTVGuide = z] :
        u \in BOOLEAN, p \in BOOLEAN, z \in BOOLEAN}

\* the state __init__ leaves (lines 133-194), before run() reads the options
InitState ==
    /\ count = 0
    /\ rc = 0
    /\ fileExists = FALSE
    /\ existed = FALSE
    /\ requested = FALSE
    /\ parsedCount = 0
    /\ halted = "no"
    /\ XTVD_startTime = <<>>
    /\ XTVD_endTime = <<>>
    /\ stations = EmptyDict
    /\ programs = EmptyDict
    /\ schedule = EmptyDict
    /\ coNum = 0
    /\ doc = <<>>
    /\ schedAtWrite = EmptyDict
    /\ enrichLog = <<>>
    /\ hist = <<>>
    /\ lastParse = NoParse

Init ==
    /\ InitState
    /\ args \in RunOptions
    /\ opt = args
    /\ pc = "config"
    /\ dfiles = EmptyDict

Next ==
    \/ ReadConfigFile
    \/ ProcessOptions
    \/ Login
    \/ BeginBucket
    \/ GetUrlAttempt
    \/ GetUrlExhausted
    \/ ParseBucket
    \/ LoopDone
    \/ WriteXmltv
    \/ WriteXtvd

Spec == Init /\ [][Next]_vars

-----------------------------------------------------------------------------
(* The first grid request of a run, for every retry count up to and above *)
(* the cap of process_options.                                           *)

MaxFetchRetries == 22

FetchOptions == {[BaseOptions EXCEPT !.retries = r] : r \in 0..MaxFetchRetries}

InitFetch ==
    /\ InitState
    /\ args \in FetchOptions
    /\ opt = args
    /\ pc = "config"
    /\ dfiles = EmptyDict

NextFetch ==
    \/ ReadConfigFile
    \/ ProcessOptions
    \/ Login
    \/ BeginBucket
    \/ GetUrlAttempt
    \/ GetUrlExhausted

SpecFetch == InitFetch /\ [][NextFetch]_vars

-----------------------------------------------------------------------------
(* The parse calls and the rendering of a run, without the fetch scheduling. *)
(* The bucket loop is over a window of whole days, so both XTVD range ends   *)
(* are set; each step is one parse call of the loop on one cache file.       *)

MaxMergeObs  == 3
MaxRenderObs == 3

LoopState ==
    /\ count = max_count
    /\ rc = 0
    /\ fileExists = TRUE
    /\ existed = TRUE
    /\ requested = FALSE
    /\ parsedCount = 0
    /\ halted = "no"
    /\ XTVD_startTime = <<BucketStart(0)>>
    /\ XTVD_endTime = <<BucketStart(max_count - 1) + (gridHours * 3600000) - 1>>
    /\ stations = EmptyDict
    /\ programs = EmptyDict
    /\ schedule = EmptyDict
    /\ coNum = 0
    /\ doc = <<>>
    /\ schedAtWrite = EmptyDict
    /\ enrichLog = <<>>
    /\ hist = <<>>
    /\ lastParse = NoParse

\* what one grid observation of a program can carry: a description, a rating,
\* genre tags (filter for the grid adapter, CatId for the alternate one)
\* start 0 stands for the start of the bucket the observation is parsed with;
\* start 50 is before the start of every bucket of the run
Obs(cp, desc, rating, filter, catid) ==
    [cp |-> cp, desc |-> desc, rating |-> rating, filter |-> filter, catid |-> catid,
     title |-> "T", episode |-> "", flag |-> {}, start |-> 0]

ObsDefault(cp) == Obs(cp, <<>>, "", <<>>, 0)

MergeObs ==
    UNION {{ Obs(cp, <<>>, "", <<>>, 0),
             Obs(cp, D1, "", <<>>, 0),
             Obs(cp, D2, "", <<>>, 0),
             Obs(cp, <<>>, "TV-G", <<>>, 0),
             Obs(cp, <<>>, "TV-PG", <<>>, 0),
             Obs(cp, <<>>, "", <<"filter-news">>, 4),
             Obs(cp, <<>>, "", <<"filter-family">>, 3),
             Obs(cp, <<>>, "", <<"filter-family", "filter-news">>, 3),
             [ObsDefault(cp) EXCEPT !.title = "U", !.episode = "E1"],
             [ObsDefault(cp) EXCEPT !.episode = "E2"],
             [ObsDefault(cp) EXCEPT !.flag = {"New"}],
             [ObsDefault(cp) EXCEPT !.flag = {"Live"}, !.start = 50] } :
          cp \in {EP1, MV1}}

\* the start of the i-th observation of a run
ObsStart(o, i) == IF o.start # 0 THEN o.start ELSE 100 * i

\* AiringAttrib of the alternate adapter: bit 0 is live, bit 2 is new
Attrib(flag) == (IF "Live" \in flag THEN 1 ELSE 0) + (IF "New" \in flag THEN 4 ELSE 0)

\* the cache file holding the observation o as the only event of one station
MergePayload(o, start) ==
    Payload(<<Chan(<<2>>, <<7>>, "KAAA",
                   <<IF opt.useTVGuide
                     THEN [TEv(o.cp, o.catid, o.title, o.desc, o.rating, start, start + 100,
                               Attrib(o.flag)) EXCEPT !.EpisodeTitle = o.episode]
                     ELSE [ZEv(o.cp, o.title, o.desc, o.rating, o.filter, start, start + 100,
                               o.flag, FALSE) EXCEPT !.program.episodeTitle = o.episode]>>)>>)

\* detail payloads on disk; the date 500 is after the start of every bucket
Detail(genres, desc, oad) ==
    [ok |-> TRUE, seriesGenres |-> genres, seriesDescription |-> desc,
     originalAirDate |-> oad]

DetailDirs ==
    { EmptyDict,
      (EP1 :> Detail(<<"Drama">>, D2, 500)) @@ (MV1 :> Detail(<<"Drama">>, D2, NoDate)),
      (EP1 :> Detail(<<>>, D1, SentinelDate)) @@ (MV1 :> Detail(<<>>, D1, NoDate)) }

\* one parse call on a file with one observation; hist keeps the observations
MergeObserve ==
    /\ pc = "merge"
    /\ parsedCount < MaxMergeObs
    /\ \E o \in MergeObs :
         LET st == ParseGrid(EntityState, MergePayload(o, ObsStart(o, parsedCount + 1)), dfiles,
                            EmptyDict)
         IN  /\ stations' = st.stations
             /\ programs' = st.programs
             /\ schedule' = st.schedule
             /\ coNum' = st.coNum
             /\ enrichLog' = st.elog
             /\ hist' = Append(hist, o)
    /\ parsedCount' = parsedCount + 1
    /\ UNCHANGED <<args, opt, pc, count, rc, fileExists, existed, requested, halted,
                   XTVD_startTime, XTVD_endTime, dfiles, doc, schedAtWrite, lastParse>>

\* an airing of a station: start, and whether the provider gave an end
Airing(no, id, name, start, hasEnd) ==
    [no |-> no, id |-> id, name |-> name, start |-> start, hasEnd |-> hasEnd]

RenderObs ==
    UNION {{ Airing(<<2>>, <<7>>, "KAAA", t, e),
             Airing(<<0, 2>>, <<7>>, "KBBB", t, e),
             Airing(<<1, 0>>, <<8>>, "KCCC", t, e) } :
           t \in {100, 200, 300}, e \in BOOLEAN}

\* the cache file holding the airing o; an absent end time is an absent
\* 'endTime' string for the grid adapter and EndTime 0 for the alternate one
RenderPayload(o) ==
    Payload(<<Chan(o.no, o.id, o.name,
                   <<IF opt.useTVGuide
                     THEN TEv(EP1, 0, "T", <<>>, "", o.start,
                              IF o.hasEnd THEN o.start + 50 ELSE 0, 0)
                     ELSE ZEv(EP1, "T", <<>>, "", <<>>, o.start,
                              IF o.hasEnd THEN o.start + 50 ELSE -1, {}, TRUE)>>)>>)

\* one parse call on a file with one airing
RenderObserve ==
    /\ pc = "render"
    /\ parsedCount < MaxRenderObs
    /\ \E o \in RenderObs :
         LET st == ParseGrid(EntityState, RenderPayload(o), dfiles, EmptyDict)
         IN  /\ stations' = st.stations
             /\ programs' = st.programs
             /\ schedule' = st.schedule
             /\ coNum' = st.coNum
             /\ enrichLog' = st.elog
    /\ parsedCount' = parsedCount + 1
    /\ UNCHANGED <<args, opt, pc, count, rc, fileExists, existed, requested, halted,
                   XTVD_startTime, XTVD_endTime, dfiles, doc, schedAtWrite, hist, lastParse>>

\* the loop is over: run() goes on to write_output_file
ObserveDone ==
    /\ pc \in {"merge", "render"}
    /\ pc' = "write"
    /\ UNCHANGED <<args, opt, count, rc, fileExists, existed, requested, parsedCount, halted,
                   XTVD_startTime, XTVD_endTime, stations, programs, schedule, coNum,
                   dfiles, doc, schedAtWrite, enrichLog, hist, lastParse>>

MergeOptions ==
    ({[BaseOptions EXCEPT !.useTVGuide = z, !.includeDetails = d] :
        z \in BOOLEAN, d \in BOOLEAN} \ {[BaseOptions EXCEPT !.useTVGuide = TRUE,
                                                             !.includeDetails = TRUE]})
    \cup {[BaseOptions EXCEPT !.includeIcons = TRUE]}

InitMerge ==
    /\ args \in MergeOptions
    /\ opt = ProcessedOptions(args)
    /\ pc = "merge"
    /\ dfiles \in (IF args.includeDetails THEN DetailDirs ELSE {EmptyDict})
    /\ LoopState

NextMerge ==
    \/ MergeObserve
    \/ ObserveDone
    \/ WriteXmltv

SpecMerge == InitMerge /\ [][NextMerge]_vars

RenderOptions ==
    {[BaseOptions EXCEPT !.useTVGuide = z, !.outputXTVD = x, !.opt9 = n, !.retainOrder = o] :
        z \in BOOLEAN, x \in BOOLEAN, n \in BOOLEAN, o \in BOOLEAN}

InitRender ==
    /\ args \in RenderOptions
    /\ opt = ProcessedOptions(args)
    /\ pc = "render"
    /\ dfiles = EmptyDict
    /\ LoopState

NextRender ==
    \/ RenderObserve
    \/ ObserveDone
    \/ WriteXmltv
    \/ WriteXtvd

SpecRender == InitRender /\ [][NextRender]_vars

-----------------------------------------------------------------------------
(* Properties of the scheduler *)

\* the bucket's fetch is forced, in the options as the user gave them
Forced(exists, day) ==
    \/ ~exists
    \/ day > args.days - args.ncdays
    \/ day <= args.ncsdays
    \/ day = args.ncmday

\* C1: for the bucket being processed, get_url is called for the grid request
\* if and only if the cache file was absent or the bucket's day lies in a
\* no-cache window; otherwise no attempt is made and the cached file is parsed.
C1_FetchIffForced ==
    pc \in {"fetch", "parse"} =>
        LET forced == Forced(existed, curday(count))
        IN  /\ requested <=> forced
            /\ forced => (pc = "fetch" \/ rc >= 1)
            /\ ~forced => (pc = "parse" /\ rc = 0)

\* a cache hit on day 1 while the last day is in the from-end window
C1_Witness ==
    /\ pc = "parse"
    /\ existed /\ ~requested /\ rc = 0
    /\ args.days = 2 /\ args.ncdays = 1
    /\ curday(count) = 1

\* the stations, programs and airings of the maps are all in the document; an
\* airing that assembly dropped as a trailing airing without end time excepted
DocHoldsMaps ==
    /\ \A k \in DOMAIN stations :
          \E i \in DOMAIN doc : doc[i].tag \in {"channel", "station"} /\ doc[i].key = k
    /\ \A k \in DOMAIN schedule : \A t \in DOMAIN schedule[k] :
          \E i \in DOMAIN doc :
              /\ doc[i].tag \in {"programme", "schedule"}
              /\ doc[i].key = k /\ doc[i].s = t
              /\ doc[i].program = schedule[k][t].program

\* C2: when a bucket's grid request exhausts its retries, no later bucket is
\* fetched or parsed, the run does not abort, and the document is written with
\* everything accumulated before the failure, in either output mode.
C2_HaltKeepsOutput ==
    halted = "exhausted" =>
        /\ pc \in {"write", "done"}
        /\ parsedCount = count
        /\ pc = "done" => (doc # <<>> /\ doc[Len(doc)].tag \in {"/tv", "/xtvd"} /\ DocHoldsMaps)

\* C3: the bucket loop ends before the last bucket only when a grid request
\* has failed on every one of the configured attempts.
C3_EarlyEndOnlyByExhaustion ==
    (pc \in {"write", "done", "aborted"} /\ count < max_count
     /\ halted \notin {"login", "writefail"}) =>
        (halted = "exhausted" /\ rc >= opt.retries)

\* a bucket has just been parsed and the loop has not gone on to the next
JustParsed == pc = "bucket" /\ parsedCount >= 1 /\ lastParse # NoParse

\* C11: a run is not aborted by a failure to write a bucket's cache file, nor
\* by a failure to delete one.
C11_CacheFailureNotFatal ==
    /\ halted = "writefail" => pc # "aborted"
    /\ (JustParsed /\ lastParse.unlinked /\ fileExists) => pc # "aborted"

\* C12: a bucket whose cache file existed and could not be decoded has had a
\* grid request issued for it by the time the loop moves on.
C12_CorruptCacheRefetched ==
    (JustParsed /\ existed /\ ~lastParse.ok) => requested

\* C13: a failure during the detail enrichment of one program affects only
\* that enrichment: every program of the payload just parsed has been
\* normalized and the run goes on.
C13_EnrichmentFailureIsolated ==
    (JustParsed /\ lastParse.ok /\ lastParse.efail # {}) =>
        /\ lastParse.programs \subseteq DOMAIN programs
        /\ pc # "aborted"

\* the options name no user, or no password (no option or config line sets a
\* lineup id)
MissingCredentials == ~args.userEmail \/ ~args.password

\* C16: with missing credentials the run ends before the bucket loop and no
\* grid request is attempted.
C16_MissingCredentialsAbort ==
    MissingCredentials =>
        /\ pc \in {"config", "help", "options", "login", "aborted"}
        /\ rc = 0

\* C24: no detail request is sent for a program whose detail file is cached,
\* nor for a program of a series one of whose programs has a detail file
\* fetched and cached earlier in the run (lastParse.cached are the detail
\* files before the parse; a run of Spec starts with none).
C24_DetailCacheReused ==
    JustParsed =>
        \A cp \in lastParse.dreq :
            \A c \in lastParse.cached : c # cp /\ c.series # cp.series

\* the configured retry count, capped
RetryLimit == IF args.retries > RetryCap THEN RetryCap ELSE args.retries

\* C25: the attempts of one get_url request never exceed the configured retry
\* count capped at 20, and an attempt is made only inside the request's loop,
\* below that count: none after the request has returned.
C25_BoundedAttempts ==
    /\ [](rc <= RetryLimit)
    /\ [][rc' > rc => (pc = "fetch" /\ rc < RetryLimit /\ rc' = rc + 1)]_vars

\* a request with more than 20 retries configured gives up after 20 attempts
C25_Witness ==
    /\ args.retries > RetryCap
    /\ rc = RetryCap
    /\ halted = "exhausted"

\* write_output_file has called print_header_xtvd
XtvdHeaderRendered == opt.outputXTVD /\ doc # <<>>

\* C27: whenever the XTVD header is rendered, bucket iteration has set both
\* ends of the range.
C27_XtvdRangeSet ==
    XtvdHeaderRendered => (XTVD_startTime # <<>> /\ XTVD_endTime # <<>>)

\* C28: every airing of the schedule map is keyed under a station of the
\* station map and refers to a program of the program map.
C28_ReferentialIntegrity ==
    \A cs \in DOMAIN schedule :
        /\ cs \in DOMAIN stations
        /\ \A t \in DOMAIN schedule[cs] : schedule[cs][t].program \in DOMAIN programs

\* a parse cut short by a failed detail write has left airings in the schedule
C28_Witness ==
    /\ JustParsed
    /\ "write" \in lastParse.efail
    /\ \E cs \in DOMAIN schedule : schedule[cs] # EmptyDict

\* the id synthesis of the last branch of station_to_channel is in use
DefaultSynthesis == ~opt.useTVGuide /\ ~oldStyleIds /\ ~opt.opt9

\* C29: in the default synthesis mode two distinct entries of the station map
\* never get the same channel identifier, also when their channel numbers
\* differ only by leading zeros.
C29_ChannelIdInjective ==
    DefaultSynthesis =>
        \A s1, s2 \in DOMAIN stations :
            s1 # s2 => station_to_channel(stations, s1) # station_to_channel(stations, s2)

\* the grid request of the current bucket has failed: get_url returned ""
FailedRequest == halted \in {"exhausted", "http500"}

\* C30: when a bucket's grid request fails, that bucket changes nothing: while
\* the request is under way and fails the station, program and schedule maps
\* and the cache file stay as they were before the request, and after the
\* failure the cache file is as it was found, the bucket is not parsed and no
\* later bucket is begun.
C30_FailedRequestFrame ==
    /\ [](FailedRequest => (/\ fileExists = existed
                            /\ lastParse = NoParse
                            /\ pc \notin {"bucket", "fetch", "parse"}))
    /\ [][(pc = "fetch" /\ pc' \in {"fetch", "write"}) =>
             UNCHANGED <<stations, programs, schedule, coNum, fileExists, dfiles,
                         parsedCount, count>>]_vars
    /\ [][FailedRequest => UNCHANGED <<fileExists, parsedCount, count, stations, programs>>]_vars

\* a request made over an existing cache file has failed after earlier buckets
\* filled the maps
C30_Witness ==
    /\ FailedRequest
    /\ pc = "write"
    /\ requested /\ existed /\ fileExists
    /\ programs # EmptyDict
    /\ schedule # EmptyDict

\* C14: with the no-placeholder-cache option the cache file is deleted after
\* parsing when every title of the payload is a placeholder, and kept when some
\* title is not and the data is not expired; without the option it is kept.
C14_PlaceholderEviction ==
    JustParsed =>
        /\ (opt.noTbaCache /\ lastParse.titles # {}
            /\ \A title \in lastParse.titles : IsTBA(title)) => lastParse.unlinked
        /\ (opt.noTbaCache /\ ~lastParse.expired
            /\ \E title \in lastParse.titles : ~IsTBA(title))
               => (~lastParse.unlinked /\ fileExists)
        /\ (~opt.noTbaCache /\ ~lastParse.expired) => (~lastParse.unlinked /\ fileExists)

\* C15: the cache file of a bucket whose payload the provider marked expired
\* is deleted once the bucket is parsed.
C15_ExpiredEvicted ==
    (JustParsed /\ lastParse.ok /\ lastParse.expired) => lastParse.unlinked

-----------------------------------------------------------------------------
(* Properties of normalization *)

\* the observations of program cp so far, as positions of hist
ObsOf(cp) == {i \in DOMAIN hist : hist[i].cp = cp}

\* the description candidates program cp has received: the non-empty
\* descriptions of its grid observations and, for a movie or show whose detail
\* payload was parsed, the payload's description
GridCandidates(cp) == {hist[i].desc : i \in ObsOf(cp)} \ {<<>>}

EnrichCandidates(cp) ==
    IF opt.includeDetails /\ Has(dfiles, cp) /\ StartsWith(cp, {"MV", "SH"})
    THEN {dfiles[cp].seriesDescription} \ {<<>>}
    ELSE {}

Candidates(cp) == GridCandidates(cp) \cup EnrichCandidates(cp)

\* C4: a program that has received two description candidates of different
\* lengths, in whatever order, has the longer one as its description.
C4_LongerDescriptionWins ==
    \A cp \in DOMAIN programs :
        \A c1, c2 \in Candidates(cp) :
            (Candidates(cp) = {c1, c2} /\ Len(c1) < Len(c2)) =>
                Get(programs[cp], "description", <<>>) = c2

\* C5: when exactly one of the observations merged for a program carries a
\* rating, the program's rating is that rating, wherever in the arrival order
\* that observation stands.
C5_SingleRatingWins ==
    \A cp \in DOMAIN programs :
        LET R == {i \in ObsOf(cp) : hist[i].rating # ""}
        IN  \A i \in R : (R = {i}) => Get(programs[cp], "rating", "") = hist[i].rating

\* three observations of one program, the first one alone carrying a rating
C5_Witness ==
    /\ Len(hist) = 3
    /\ \A i \in DOMAIN hist : hist[i].cp = EP1
    /\ hist[1].rating = "TV-PG" /\ hist[2].rating = "" /\ hist[3].rating = ""
    /\ programs[EP1]["rating"] = "TV-PG"

\* q enumerates the genres of gh in strictly ascending (rank, name) order
AscendingByRankName(gh, q) ==
    /\ Len(q) = Cardinality(DOMAIN gh)
    /\ \A i \in DOMAIN q : q[i] \in DOMAIN gh
    /\ \A i, j \in DOMAIN q :
          i < j => \/ gh[q[i]] < gh[q[j]]
                   \/ (gh[q[i]] = gh[q[j]] /\ NameLess(q[i], q[j]))

\* no grid observation of cp carries more than one genre tag, so every rank
\* the grid gives is 1
GridRanksAllOne(cp) == \A i \in ObsOf(cp) : Len(hist[i].filter) <= 1

MinOf(S) == CHOOSE m \in S : \A x \in S : m <= x

\* the original-air-date candidates program cp has received, in ms: the
\* starts of its airings flagged new or live (the grid adapter backfills
\* them for ids with an episode part) and the date of its detail payload
BackfillCandidates(cp) ==
    IF opt.useTVGuide \/ cp.seq = 0 THEN {}
    ELSE {ObsStart(hist[i], i) * 1000 :
             i \in {j \in ObsOf(cp) : hist[j].flag \cap {"New", "Live"} # {}}}

EnrichDates(cp) ==
    IF opt.includeDetails /\ Has(dfiles, cp) /\ StartsWith(cp, {"EP"})
       /\ dfiles[cp].originalAirDate \notin {NoDate, SentinelDate}
    THEN {dfiles[cp].originalAirDate * 1000}
    ELSE {}

DateCandidates(cp) == BackfillCandidates(cp) \cup EnrichDates(cp)

\* C17: after any sequence of backfills and enrichments the original air
\* date of a program is the earliest of the candidates it has received.
C17_EarliestAirDateWins ==
    \A cp \in DOMAIN programs :
        DateCandidates(cp) # {} =>
            Get(programs[cp], "originalAirDate", NoDate) = MinOf(DateCandidates(cp))

\* C18: the title of a program is the title of its first observation, and
\* its episode title the first non-empty episode title observed.
C18_TitleFirstWriteWins ==
    \A cp \in DOMAIN programs :
        LET E == {i \in ObsOf(cp) : hist[i].episode # ""}
        IN  /\ ObsOf(cp) # {} => programs[cp]["title"] = hist[MinOf(ObsOf(cp))].title
            /\ E # {} => Get(programs[cp], "episode", "") = hist[MinOf(E)].episode

\* C19: the rating of a program is the first rating observed for it: a set
\* rating is not changed by a later observation.
C19_RatingFirstWriteWins ==
    \A cp \in DOMAIN programs :
        LET R == {i \in ObsOf(cp) : hist[i].rating \notin {"", "NR"}}
        IN  R # {} => Get(programs[cp], "rating", "") = hist[MinOf(R)].rating

\* the observations of cp whose filter tags name the genre g
Carrying(cp, g) ==
    {i \in ObsOf(cp) : \E k \in DOMAIN hist[i].filter : FilterGenre(hist[i].filter[k]) = g}

\* the rank the i-th observation gives the genre g: its position in the tags
RankIn(i, g) ==
    CHOOSE k \in DOMAIN hist[i].filter : FilterGenre(hist[i].filter[k]) = g

\* C20: the rank of a genre of a program is the rank its first grid
\* observation carrying that genre gave it.
C20_GenreRankFirstWriteWins ==
    ~opt.useTVGuide =>
        \A cp \in DOMAIN programs :
            \A g \in DOMAIN Get(programs[cp], "genres", EmptyDict) :
                Carrying(cp, g) # {} =>
                    programs[cp]["genres"][g] = RankIn(MinOf(Carrying(cp, g)), g)

\* the parse call just made has attempted a detail enrichment of program cp
\* (the alternate adapter requests no details in the runs of SpecMerge)
Attempted(cp) == \E n \in DOMAIN enrichLog : enrichLog[n].cp = cp

\* the enrichment trigger: icons are requested, or details are requested and
\* the program is a movie or a non-generic show (every observation of these
\* runs is non-generic)
Triggered(cp) ==
    \/ opt.includeIcons
    \/ opt.includeDetails /\ StartsWith(cp, {"MV"})
    \/ opt.includeDetails /\ StartsWith(cp, {"EP", "SH"})

\* C23: detail enrichment is attempted for an observed program exactly when
\* the trigger holds (enrichLog is the log of the last parse call, whose one
\* event is the last observation).
C23_EnrichmentTrigger ==
    hist # <<>> =>
        (Attempted(hist[Len(hist)].cp) <=> Triggered(hist[Len(hist)].cp))

\* the n-th enrichment of the run parsed a well-formed detail payload
Enriched(n) == Has(dfiles, enrichLog[n].cp) /\ dfiles[enrichLog[n].cp].ok

\* C21: after a successful enrichment every series genre tag of the detail
\* payload is a genre of the program; the tags the program had keep their
\* rank and each new tag ranks above every rank the program had, in payload
\* order, also when the program had no genres before.
C21_SeriesGenresMerged ==
    \A n \in DOMAIN enrichLog :
        Enriched(n) =>
            LET tags == dfiles[enrichLog[n].cp].seriesGenres
                b    == enrichLog[n].before
                a    == enrichLog[n].after
            IN  /\ \A k \in DOMAIN tags : Lower(tags[k]) \in DOMAIN a
                /\ \A g \in DOMAIN b : g \in DOMAIN a /\ a[g] = b[g]
                /\ \A k \in DOMAIN tags :
                      Lower(tags[k]) \notin DOMAIN b =>
                          /\ \A h \in DOMAIN b : a[Lower(tags[k])] > b[h]
                          /\ \A j \in DOMAIN tags :
                                (j < k /\ Lower(tags[j]) \notin DOMAIN b) =>
                                    a[Lower(tags[j])] < a[Lower(tags[k])]

-----------------------------------------------------------------------------
(* Properties of assembly and rendering *)

\* the end time the provider gave for the airing a, in ms; 0 if it gave none
ExplicitEnd(a) ==
    IF Has(a, "endTime") THEN a["endTime"]
    ELSE IF Has(a, "endtime") THEN a["endtime"] ELSE 0

\* t is the latest start among the airings A of one station
IsLast(A, t) == \A u \in DOMAIN A : u <= t

\* the start that follows t among the airings A
NextStart(A, t) == CHOOSE u \in DOMAIN A : u > t /\ \A v \in DOMAIN A : v > t => u <= v

\* the positions of doc that hold a record of kind tag for (station k, start t)
RecordsOf(tag, k, t) ==
    {n \in DOMAIN doc : doc[n].tag = tag /\ doc[n].key = k /\ doc[n].s = t}

\* the channel/programme document has been written from the maps schedAtWrite
XmltvWritten == pc = "done" /\ ~opt.outputXTVD

\* C6: in the written document the programme records of a station ascend by
\* start; an airing with an explicit end is emitted with that end, also as the
\* last of its station; one without is emitted with the next airing's start
\* as its end, and is dropped only if it is the last of its station.
C6_AssemblyRule ==
    XmltvWritten =>
        /\ \A m, n \in DOMAIN doc :
              (doc[m].tag = "programme" /\ doc[n].tag = "programme"
               /\ doc[m].key = doc[n].key /\ m < n) => doc[m].start < doc[n].start
        /\ \A k \in DOMAIN schedAtWrite : \A t \in DOMAIN schedAtWrite[k] :
              LET A == schedAtWrite[k]
                  R == RecordsOf("programme", k, t)
              IN  IF ExplicitEnd(A[t]) > 0
                  THEN \E n \in R : doc[n].stop = conv_time(ExplicitEnd(A[t]))
                  ELSE IF IsLast(A, t)
                  THEN R = {}
                  ELSE \E n \in R : doc[n].stop = conv_time(A[NextStart(A, t)].time)

\* print_header_xtvd has returned and print_schedules_xtvd has been entered
XtvdSchedulesEntered ==
    /\ pc \in {"done", "aborted"}
    /\ opt.outputXTVD
    /\ \E n \in DOMAIN doc : doc[n].tag = "schedules"

\* C7: in the XTVD document every station with n >= 1 airings has n-1 schedule
\* records, one for each airing but the last, with the gap to the next start as
\* duration; the last airing is removed from the schedule and not emitted.
C7_XtvdSchedules ==
    XtvdSchedulesEntered =>
        \A k \in DOMAIN schedAtWrite : \A t \in DOMAIN schedAtWrite[k] :
            LET A == schedAtWrite[k]
                R == RecordsOf("schedule", k, t)
            IN  IF IsLast(A, t)
                THEN R = {} /\ t \notin DOMAIN schedule[k]
                ELSE /\ Cardinality(R) = 1
                     /\ \A n \in R : doc[n].duration = A[NextStart(A, t)].time - A[t].time

\* C26: rendering the schedules section of the XTVD document finishes without
\* an error for every schedule map and the section's closing tag is written.
C26_XtvdSchedulesTerminate ==
    XtvdSchedulesEntered =>
        /\ pc = "done"
        /\ \E n \in DOMAIN doc : doc[n].tag = "/schedules"

\* the channel records of the document
ChannelRecs == {n \in DOMAIN doc : doc[n].tag = "channel"}

\* the suffix of the run's synthesis mode
ModeSuffix ==
    IF opt.useTVGuide THEN ".tvguide.com"
    ELSE IF opt.opt9 THEN ".labs.gracenote.com" ELSE ".gracenote.com"

\* the number a sequence of digits denotes
RECURSIVE NumVal(_)
NumVal(s) == IF s = <<>> THEN 0 ELSE 10 * NumVal(SubSeq(s, 1, Len(s) - 1)) + s[Len(s)]

\* the display order of a station: the provider-original index with
\* retain-order, else the numeric value of its channel number
DisplayOrder(key) ==
    IF opt.retainOrder THEN stations[key].order[2] ELSE NumVal(stations[key].number)

\* C22: the channel records are in non-decreasing display order, ties broken
\* by the provider channel id.
C22_StationsInDisplayOrder ==
    XmltvWritten =>
        \A m, n \in ChannelRecs :
            m < n => \/ DisplayOrder(doc[m].key) < DisplayOrder(doc[n].key)
                     \/ /\ DisplayOrder(doc[m].key) = DisplayOrder(doc[n].key)
                        /\ ~StrLess(stations[doc[n].key].stnNum, stations[doc[m].key].stnNum)

\* C9: two station records with the same station id and channel number get the
\* same channel id whatever else they hold; every id of the document is of the
\* run's one mode; every programme record's channel is the id of the channel
\* record of its station.
C9_ChannelIdDetermined ==
    XmltvWritten =>
        /\ \A m, n \in ChannelRecs :
              (/\ stations[doc[m].key].stnNum = stations[doc[n].key].stnNum
               /\ stations[doc[m].key].number = stations[doc[n].key].number)
                  => doc[m].id = doc[n].id
        /\ \A n \in ChannelRecs : doc[n].id[Len(doc[n].id)] = ModeSuffix
        /\ \A n \in DOMAIN doc :
              doc[n].tag = "programme" =>
                  /\ \E m \in ChannelRecs : doc[m].key = doc[n].key
                  /\ \A m \in ChannelRecs : doc[m].key = doc[n].key => doc[n].channel = doc[m].id

\* two stations that share id and number and differ in name, both rendered,
\* one of them with a programme
C9_Witness ==
    /\ XmltvWritten
    /\ \E m, n \in ChannelRecs :
          /\ doc[m].key # doc[n].key
          /\ stations[doc[m].key].stnNum = stations[doc[n].key].stnNum
          /\ stations[doc[m].key].number = stations[doc[n].key].number
          /\ stations[doc[m].key].name # stations[doc[n].key].name
          /\ doc[m].id = doc[n].id
    /\ \E n \in DOMAIN doc : doc[n].tag = "programme"

\* all airings of the maps S, as (station, start) pairs
AiringsOf(S) == UNION {{<<k, t>> : t \in DOMAIN S[k]} : k \in DOMAIN S}

\* the airings that assembly removed from the maps while writing
Dropped == AiringsOf(schedAtWrite) \ AiringsOf(schedule)

=============================================================================
